---- MODULE Spec2Model ----
(***************************************************************************)
(* AgriCare: the upload -> analysis -> report pipeline of server.js (the   *)
(* Express deployment) and of the Netlify functions (analyze, save-report).*)
(*                                                                         *)
(* Texts (model output, file names) are sequences of tokens; a token is a  *)
(* short piece of the character string.  The archive is a key/value store  *)
(* per namespace (uploads, reports, meta).                                 *)
(***************************************************************************)
EXTENDS Integers, Sequences, FiniteSets, TLC

(***************************************************************************)
(* Bounds of the model.                                                    *)
(***************************************************************************)
MaxBodyLen == 3
MaxReq == 2
MaxTime == 1
MaxRuns == 3

(***************************************************************************)
(* Tokens of a model response text.                                        *)
(***************************************************************************)
\* The three backticks of a Markdown code fence, as one token.
FENCE == "<backticks>"
NL == "\n"
SP == " "
LBRACE == "{"
RBRACE == "}"
MEMBER == "\"disease\":\"Rust\""
OBJ_GOOD == "{\"disease\":\"Leaf Blight\",\"medicines\":[\"Copper spray\"],\"description\":\"Fungal infection\",\"causes\":[\"High humidity\"]}"
OBJ_WRONG == "{\"disease\":7,\"medicines\":\"Copper spray\",\"description\":null,\"causes\":null}"
OBJ_NONSTR == "{\"medicines\":[1],\"causes\":[\"High humidity\",null]}"
NULLTOK == "null"
JUNK == "not json"

Whitespace == {NL, SP}
JsonTags == {"json", "JSON"}
OtherTags == {"js"}
BodyAlphabet ==
  {FENCE, NL, SP, "json", LBRACE, RBRACE, MEMBER, OBJ_GOOD, OBJ_WRONG,
   OBJ_NONSTR, NULLTOK, JUNK}

SeqsUpTo(S, n) == UNION {[1..k -> S] : k \in 0..n}

(***************************************************************************)
(* JSON values.  A field value carries its JavaScript type.                *)
(***************************************************************************)
Keys == {"disease", "medicines", "description", "causes"}
Undefined == [type |-> "undefined", str |-> "", items |-> <<>>]
Null == [type |-> "null", str |-> "", items |-> <<>>]
Str(s) == [type |-> "string", str |-> s, items |-> <<>>]
Num(s) == [type |-> "number", str |-> s, items |-> <<>>]
Arr(xs) == [type |-> "array", str |-> "", items |-> xs]
AStr(s) == [type |-> "string", str |-> s]
ANum(s) == [type |-> "number", str |-> s]
ANull == [type |-> "null", str |-> ""]

NoFields == [k \in Keys |-> Undefined]
Obj(f) == [type |-> "object", fields |-> f]
Prim(t) == [type |-> t, fields |-> NoFields]

\* The value each one-token JSON document denotes.
DocValue(tok) ==
  CASE tok = OBJ_GOOD ->
         Obj([disease |-> Str("Leaf Blight"),
              medicines |-> Arr(<<AStr("Copper spray")>>),
              description |-> Str("Fungal infection"),
              causes |-> Arr(<<AStr("High humidity")>>)])
    [] tok = OBJ_WRONG ->
         Obj([disease |-> Num("7"),
              medicines |-> Str("Copper spray"),
              description |-> Null,
              causes |-> Null])
    [] tok = OBJ_NONSTR ->
         Obj([disease |-> Undefined,
              medicines |-> Arr(<<ANum("1")>>),
              description |-> Undefined,
              causes |-> Arr(<<AStr("High humidity"), ANull>>)])
    [] tok = NULLTOK -> Prim("null")
    [] OTHER -> Prim("undefined")
DocTokens == {OBJ_GOOD, OBJ_WRONG, OBJ_NONSTR, NULLTOK}

(***************************************************************************)
(* String.prototype.trim on a token sequence.                              *)
(***************************************************************************)
RECURSIVE TrimLeft(_)
TrimLeft(s) ==
  IF s # <<>> /\ Head(s) \in Whitespace THEN TrimLeft(Tail(s)) ELSE s

RECURSIVE TrimRight(_)
TrimRight(s) ==
  IF s # <<>> /\ s[Len(s)] \in Whitespace
    THEN TrimRight(SubSeq(s, 1, Len(s) - 1))
    ELSE s

Trim(s) == TrimRight(TrimLeft(s))

(***************************************************************************)
(* text.match(/```(?:json)?\n([\s\S]*?)\n```/i): the leftmost opening      *)
(* fence that has a closing one, and the shortest content after it.        *)
(***************************************************************************)
\* The pattern without the optional tag: /```\n([\s\S]*?)\n```/
ContentStart_NoTag(s, i) ==
  IF i > Len(s) \/ s[i] # FENCE THEN 0
  ELSE IF i + 1 <= Len(s) /\ s[i + 1] = NL THEN i + 2
  ELSE 0

\* Index of the first content token when an opening fence starts at i, else 0.
ContentStart(s, i) ==
  IF i > Len(s) \/ s[i] # FENCE THEN 0
  ELSE IF i + 1 <= Len(s) /\ s[i + 1] = NL THEN i + 2
  ELSE IF i + 2 <= Len(s) /\ s[i + 1] \in JsonTags /\ s[i + 2] = NL THEN i + 3
  ELSE 0

\* The positions j >= cs where "\n```" begins.
ContentEnds(s, cs) ==
  {j \in cs..(Len(s) - 1) : s[j] = NL /\ s[j + 1] = FENCE}

Min(S) == CHOOSE x \in S : \A y \in S : x <= y

FenceStarts(s) ==
  {i \in 1..Len(s) : ContentStart(s, i) # 0
                      /\ ContentEnds(s, ContentStart(s, i)) # {}}

codeFenceMatch(s) ==
  IF FenceStarts(s) = {} THEN [matched |-> FALSE, group |-> <<>>]
  ELSE LET i == Min(FenceStarts(s))
           cs == ContentStart(s, i)
           j == Min(ContentEnds(s, cs))
       IN [matched |-> TRUE, group |-> SubSeq(s, cs, j - 1)]

\* jsonText: the trimmed text, or the trimmed first fenced block.
ExtractJsonText(text) ==
  LET t == Trim(text)
      m == codeFenceMatch(t)
  IN IF m.matched THEN Trim(m.group) ELSE t

(***************************************************************************)
(* JSON.parse on a token sequence: whitespace between tokens is ignored;   *)
(* the rest is one document token, or an object written with braces.       *)
(***************************************************************************)
NoWs(s) == SelectSeq(s, LAMBDA c : c \notin Whitespace)

JSONparse(s) ==
  LET t == NoWs(s) IN
  IF Len(t) = 1 /\ t[1] \in DocTokens
    THEN [ok |-> TRUE, val |-> DocValue(t[1])]
  ELSE IF t = <<LBRACE, RBRACE>>
    THEN [ok |-> TRUE, val |-> Obj(NoFields)]
  ELSE IF t = <<LBRACE, MEMBER, RBRACE>>
    THEN [ok |-> TRUE, val |-> Obj([NoFields EXCEPT !.disease = Str("Rust")])]
  ELSE [ok |-> FALSE, val |-> Prim("undefined")]

(***************************************************************************)
(* Normalization of the parsed value into the four fields.                 *)
(***************************************************************************)
\* parsed.k: reading a property of null throws a TypeError.
Throws(parsed) == parsed.type = "null"
Get(parsed, k) == IF parsed.type = "object" THEN parsed.fields[k] ELSE Undefined

NormString(v, default) == IF v.type = "string" THEN v ELSE Str(default)
NormArray(v) == IF v.type = "array" THEN v ELSE Arr(<<>>)

Normalize(parsed) ==
  [disease |-> NormString(Get(parsed, "disease"), "Unknown"),
   medicines |-> NormArray(Get(parsed, "medicines")),
   description |-> NormString(Get(parsed, "description"), ""),
   causes |-> NormArray(Get(parsed, "causes"))]

NoAnalysis ==
  [disease |-> Undefined, medicines |-> Undefined,
   description |-> Undefined, causes |-> Undefined]

\* A parse failure that is caught and answered with the defaults.
AnalyzeText_DefaultsOnParseError(text) ==
  LET p == JSONparse(ExtractJsonText(text)) IN
  IF ~p.ok THEN [status |-> "ok", analysis |-> Normalize(Obj(NoFields))]
  ELSE IF Throws(p.val) THEN [status |-> "type_error", analysis |-> NoAnalysis]
  ELSE [status |-> "ok", analysis |-> Normalize(p.val)]

\* The outcome of analyzeWithGemini after the model has answered "text".
AnalyzeText(text) ==
  LET p == JSONparse(ExtractJsonText(text)) IN
  IF ~p.ok THEN [status |-> "parse_error", analysis |-> NoAnalysis]
  ELSE IF Throws(p.val) THEN [status |-> "type_error", analysis |-> NoAnalysis]
  ELSE [status |-> "ok", analysis |-> Normalize(p.val)]

(***************************************************************************)
(* A model response that wraps the JSON text J in a Markdown fenced block. *)
(***************************************************************************)
FenceTags == {"none"} \cup JsonTags \cup OtherTags
Wrappings == {"raw"} \cup FenceTags

Wrap(w, J) ==
  CASE w = "raw" -> J
    [] w = "none" -> <<FENCE, NL>> \o J \o <<NL, FENCE>>
    [] OTHER -> <<FENCE, w, NL>> \o J \o <<NL, FENCE>>

IsJsonText(J) == JSONparse(J).ok

(***************************************************************************)
(* File names: sequences of tokens.  "_", letters, digits and "." are the  *)
(* characters [a-zA-Z0-9_.-] keeps; " " and "/" are replaced by "_".       *)
(***************************************************************************)
DOT == "."
UnsafeTokens == {" ", "/"}
OriginalNames == {<<"my", " ", "leaf", DOT, "png">>, <<"leaf">>}
BaseNames == {<<"crop_", "0">>, <<"my", "/", "report">>}

\* name.replace(/[^a-zA-Z0-9_.-]/g, "_")
Sanitize(name) ==
  [i \in 1..Len(name) |-> IF name[i] \in UnsafeTokens THEN "_" ELSE name[i]]

Max(S) == CHOOSE x \in S : \A y \in S : y <= x
Dots(name) == {i \in 1..Len(name) : name[i] = DOT}

\* path.extname: from the last "." on, "" when there is none or it is first.
extname(name) ==
  IF Dots(name) = {} \/ Max(Dots(name)) = 1 THEN <<>>
  ELSE SubSeq(name, Max(Dots(name)), Len(name))

\* storage.filename of multer: crop_<Date.now()><ext>
StorageFilename(time, originalname) ==
  LET safeOriginal == Sanitize(originalname)
      ext == IF extname(safeOriginal) = <<>> THEN <<DOT, "jpg">>
             ELSE extname(safeOriginal)
  IN <<"crop_", ToString(time)>> \o ext

\* path.parse(filename).name
ParsedName(filename) ==
  IF extname(filename) = <<>> THEN filename
  ELSE SubSeq(filename, 1, Max(Dots(filename)) - 1)

\* safeName of the Netlify analyze handler.
SafeName(time, originalName) ==
  Sanitize(IF originalName # <<>> THEN originalName
           ELSE <<"crop_", ToString(time), DOT, "png">>)

\* safeName.replace(/\.[^.]+$/, "")
StripExtension(name) ==
  IF Dots(name) = {} \/ Max(Dots(name)) = Len(name) THEN name
  ELSE SubSeq(name, 1, Max(Dots(name)) - 1)

\* safeBase of save-report.
SafeBase(time, baseName) ==
  Sanitize(IF baseName # <<>> THEN baseName
           ELSE <<"analysis_", ToString(time)>>)

(***************************************************************************)
(* Upload constraints.                                                     *)
(***************************************************************************)
\* An allow-set that also lets GIF images through.
allowedMimeTypes_WithGif == {"image/jpeg", "image/jpg", "image/png", "image/gif"}

\* server.js 32, and the same set in the Netlify analyze function.
allowedMimeTypes == {"image/jpeg", "image/jpg", "image/png"}
allowed == {"image/jpeg", "image/jpg", "image/png"}
MimeTypes == {"image/png", "image/gif"}
\* Sizes in MB; fileSize is the multer limit.
fileSize == 10
Sizes == {1, 11}

PdfPayloads == {"missing", "pdf", "text", "number"}
\* The check without the prefix test: !pdfDataUrl
InvalidPdf_MissingOnly(pdf) == pdf = "missing"

\* !pdfDataUrl || !pdfDataUrl.startsWith("data:application/pdf;base64,")
InvalidPdf(pdf) == pdf = "missing" \/ pdf = "text"
\* pdfDataUrl.startsWith is not a function
PdfThrows(pdf) == pdf = "number"

\* The texts the external model answers with.
ModelTexts ==
  {<<FENCE, "json", NL, OBJ_GOOD, NL, FENCE>>, <<LBRACE, RBRACE>>,
   <<NULLTOK>>, <<JUNK>>}

(***************************************************************************)
(* Responses.                                                              *)
(***************************************************************************)
NoResponse ==
  [status |-> 0, json |-> FALSE, success |-> FALSE, error |-> "",
   imageFilename |-> <<>>, analysis |-> NoAnalysis, reportUrl |-> <<>>]

\* res.status(code).json({ error }) and the Netlify bodies JSON.stringify({ error })
ErrorJson(code, message) ==
  [NoResponse EXCEPT !.status = code, !.json = TRUE, !.error = message]

\* A body that is not JSON: "Method Not Allowed", or the HTML page of the
\* default Express error handler.
ErrorText(code, message) ==
  [NoResponse EXCEPT !.status = code, !.json = FALSE, !.error = message]

AnalyzeSuccess(filename, analysis) ==
  [NoResponse EXCEPT !.status = 200, !.json = TRUE, !.success = TRUE,
                     !.imageFilename = filename, !.analysis = analysis]

SaveSuccess(safeBase) ==
  [NoResponse EXCEPT !.status = 200, !.json = TRUE, !.success = TRUE,
                     !.reportUrl = safeBase]

(***************************************************************************)
(* State.                                                                  *)
(*   deployment   : which of the two deployments is running                *)
(*   geminiApiKey : whether the process has a Gemini API key               *)
(*   now          : Date.now()                                             *)
(*   uploads, reports, meta : the archive, one key/value store a namespace *)
(*   req          : the requests, each with its input, its position in its *)
(*                  handler, what it has done so far and its response      *)
(*   body .. result : one run of the text steps of analyzeWithGemini       *)
(*                    (response text -> jsonText -> parsed -> result)      *)
(*   isNetlify .. run : the page of public/script.js: its globals, the two *)
(*                    buttons, and the runs of its two async functions     *)
(***************************************************************************)
VARIABLES deployment, geminiApiKey, now, uploads, reports, meta, req,
          body, wrapping, text, stage, jsonText, parsed, result,
          isNetlify, currentFile, lastAnalysis, lastImageFilename,
          analyzeBtnDisabled, downloadBtnHidden, run

svars == <<deployment, geminiApiKey, now, uploads, reports, meta, req>>
avars == <<body, wrapping, text, stage, jsonText, parsed, result>>
cvars == <<isNetlify, currentFile, lastAnalysis, lastImageFilename,
           analyzeBtnDisabled, downloadBtnHidden, run>>
vars == <<deployment, geminiApiKey, now, uploads, reports, meta, req,
          body, wrapping, text, stage, jsonText, parsed, result,
          isNetlify, currentFile, lastAnalysis, lastImageFilename,
          analyzeBtnDisabled, downloadBtnHidden, run>>

Reqs == 1..MaxReq
NoResult == [status |-> "none", analysis |-> NoAnalysis]
EmptyStore == [k \in {} |-> 0]

Put(store, k, v) == [x \in DOMAIN store \cup {k} |-> IF x = k THEN v ELSE store[x]]
Remove(store, k) == [x \in DOMAIN store \ {k} |-> store[x]]

NewReq ==
  [pc |-> "new", op |-> "none", method |-> "POST", body |-> "ok",
   image |-> "none", mime |-> "none", size |-> 1, name |-> <<>>,
   pdf |-> "missing", baseName |-> <<>>, hasAnalysis |-> FALSE,
   modelCalls |-> 0, answer |-> <<>>, wrote |-> {}, failed |-> {},
   stamp |-> 0, filename |-> <<>>, analysis |-> NoAnalysis, resp |-> NoResponse]

\* No server is running and no request is made.
ServerIdle ==
  /\ deployment = "none"
  /\ geminiApiKey = FALSE
  /\ now = 0
  /\ uploads = EmptyStore
  /\ reports = EmptyStore
  /\ meta = EmptyStore
  /\ req = [r \in Reqs |-> NewReq]

\* No response text is being processed.
AnalysisIdle ==
  /\ body = <<>>
  /\ wrapping = "raw"
  /\ text = <<>>
  /\ stage = "idle"
  /\ jsonText = <<>>
  /\ parsed = [ok |-> FALSE, val |-> Prim("undefined")]
  /\ result = NoResult

(***************************************************************************)
(* The page before anything is chosen (script.js 16-18).  A file is its    *)
(* name and type, an analysis is known by the file whose bytes it is       *)
(* about, a stored image name by the bytes stored and the name they were   *)
(* sent under.                                                             *)
(***************************************************************************)
Runs == 1..MaxRuns
NullFile == [name |-> "", type |-> ""]
NullAnalysis == [of |-> ""]
NullFilename == [of |-> "", named |-> ""]
NoDoc == [image |-> "", analysis |-> NullAnalysis, imageFilename |-> NullFilename]
NewRun ==
  [kind |-> "none", pc |-> "new", data |-> NullFile, named |-> NullFile,
   doc |-> NoDoc]

ClientIdle ==
  /\ isNetlify = FALSE
  /\ currentFile = NullFile
  /\ lastAnalysis = NullAnalysis
  /\ lastImageFilename = NullFilename
  /\ analyzeBtnDisabled = TRUE
  /\ downloadBtnHidden = TRUE
  /\ run = [i \in Runs |-> NewRun]

(***************************************************************************)
(* The text steps of analyzeWithGemini, one at a time.                     *)
(***************************************************************************)
\* The model answers with body J, raw or inside a fenced block.
AnalysisInit ==
  /\ ServerIdle
  /\ ClientIdle
  /\ body \in SeqsUpTo(BodyAlphabet, MaxBodyLen)
  /\ wrapping \in Wrappings
  /\ text = Wrap(wrapping, body)
  /\ stage = "text"
  /\ jsonText = <<>>
  /\ parsed = [ok |-> FALSE, val |-> Prim("undefined")]
  /\ result = NoResult

\* server.js 90-95: trim, strip the code fence.
StripFence ==
  /\ stage = "text"
  /\ jsonText' = ExtractJsonText(text)
  /\ stage' = "jsonText"
  /\ UNCHANGED <<body, wrapping, text, parsed, result>>
  /\ UNCHANGED svars
  /\ UNCHANGED cvars

\* server.js 97-99: JSON.parse succeeds.
ParseOk ==
  /\ stage = "jsonText"
  /\ JSONparse(jsonText).ok
  /\ parsed' = JSONparse(jsonText)
  /\ stage' = "parsed"
  /\ UNCHANGED <<body, wrapping, text, jsonText, result>>
  /\ UNCHANGED svars
  /\ UNCHANGED cvars

\* server.js 100-101: JSON.parse throws.
ParseFail ==
  /\ stage = "jsonText"
  /\ ~JSONparse(jsonText).ok
  /\ result' = [status |-> "parse_error", analysis |-> NoAnalysis]
  /\ stage' = "done"
  /\ UNCHANGED <<body, wrapping, text, jsonText, parsed>>
  /\ UNCHANGED svars
  /\ UNCHANGED cvars

\* server.js 104-112: the four fields are read and defaulted.
NormalizeStep ==
  /\ stage = "parsed"
  /\ ~Throws(parsed.val)
  /\ result' = [status |-> "ok", analysis |-> Normalize(parsed.val)]
  /\ stage' = "done"
  /\ UNCHANGED <<body, wrapping, text, jsonText, parsed>>
  /\ UNCHANGED svars
  /\ UNCHANGED cvars

\* server.js 105-106: parsed is null, so parsed.disease throws a TypeError.
NormalizeThrows ==
  /\ stage = "parsed"
  /\ Throws(parsed.val)
  /\ result' = [status |-> "type_error", analysis |-> NoAnalysis]
  /\ stage' = "done"
  /\ UNCHANGED <<body, wrapping, text, jsonText, parsed>>
  /\ UNCHANGED svars
  /\ UNCHANGED cvars

AnalysisNext ==
  \/ StripFence
  \/ ParseOk
  \/ ParseFail
  \/ NormalizeStep
  \/ NormalizeThrows

SpecAnalysis == AnalysisInit /\ [][AnalysisNext]_vars

(***************************************************************************)
(* The servers.                                                            *)
(***************************************************************************)
Init ==
  /\ AnalysisIdle
  /\ ClientIdle
  /\ deployment \in {"express", "netlify"}
  \* server.js 53-54 reads the key from the environment; the Netlify analyze
  \* handler has it in the code.
  /\ geminiApiKey \in (IF deployment = "express" THEN BOOLEAN ELSE {TRUE})
  /\ now = 0
  /\ uploads = EmptyStore
  /\ reports = EmptyStore
  /\ meta = EmptyStore
  /\ req = [r \in Reqs |-> NewReq]

\* Requests arrive in the order of their numbers.
CanStart(r) ==
  req[r].pc = "new" /\ (IF r = 1 THEN TRUE ELSE req[r - 1].pc # "new")

AnalyzeReq(m, b, img, mt, sz, nm) ==
  [NewReq EXCEPT !.op = "analyze", !.method = m, !.body = b, !.image = img,
                 !.mime = mt, !.size = sz, !.name = nm]

SaveReq(m, b, p, bn, a) ==
  [NewReq EXCEPT !.op = "save", !.method = m, !.body = b, !.pdf = p,
                 !.baseName = bn, !.hasAnalysis = a]

Respond(rec, response) == [rec EXCEPT !.pc = "done", !.resp = response]

\* Time passes.
Tick ==
  /\ now < MaxTime
  /\ now' = now + 1
  /\ UNCHANGED <<deployment, geminiApiKey, uploads, reports, meta, req>>
  /\ UNCHANGED avars
  /\ UNCHANGED cvars

(***************************************************************************)
(* Express: POST /api/analyze.                                             *)
(***************************************************************************)
ExpressAnalyzeInputs ==
  {AnalyzeReq("POST", "malformed", "none", "none", 1, <<>>),
   AnalyzeReq("POST", "ok", "none", "none", 1, <<>>)}
  \cup {AnalyzeReq("POST", "ok", "file", mt, sz, nm) :
          mt \in MimeTypes, sz \in Sizes, nm \in OriginalNames}

\* upload.single("image"): fileFilter, storage.filename, the write to
\* uploadsDir and the fileSize limit.  An error goes to next(err), which the
\* default Express error handler answers with an HTML page.
ExpressUpload(r) ==
  /\ deployment = "express"
  /\ CanStart(r)
  /\ \E in \in ExpressAnalyzeInputs :
       LET fn == StorageFilename(now, in.name)
           rec == [in EXCEPT !.stamp = now, !.filename = fn]
       IN
       IF in.body = "malformed"
         THEN /\ req' = [req EXCEPT ![r] =
                           Respond(in, ErrorText(500, "Unexpected end of form"))]
              /\ UNCHANGED uploads
       ELSE IF in.image = "none"
         THEN /\ req' = [req EXCEPT ![r] = [in EXCEPT !.pc = "handler"]]
              /\ UNCHANGED uploads
       ELSE IF in.mime \notin allowedMimeTypes
         THEN /\ req' = [req EXCEPT ![r] =
                           Respond(in, ErrorText(500, "Only JPG, JPEG, PNG are allowed"))]
              /\ UNCHANGED uploads
       ELSE IF in.size > fileSize
         \* the part written so far is removed again
         THEN /\ uploads' = Remove(uploads, fn)
              /\ req' = [req EXCEPT ![r] =
                           Respond(rec, ErrorText(500, "File too large"))]
       ELSE \E written \in BOOLEAN :
              IF written
                THEN /\ uploads' = Put(uploads, fn, [req |-> r, time |-> now])
                     /\ req' = [req EXCEPT ![r] =
                                  [rec EXCEPT !.pc = "handler", !.wrote = {"uploads"}]]
                ELSE /\ UNCHANGED uploads
                     /\ req' = [req EXCEPT ![r] =
                                  Respond([rec EXCEPT !.failed = {"uploads"}],
                                          ErrorText(500, "ENOSPC"))]
  /\ UNCHANGED <<deployment, geminiApiKey, now, reports, meta>>
  /\ UNCHANGED avars
  /\ UNCHANGED cvars

\* server.js 117-124 and 66-85: the handler up to the call of the model.
ExpressAnalyzeCall(r) ==
  /\ deployment = "express"
  /\ req[r].pc = "handler"
  /\ LET rec == req[r] IN
       IF rec.image = "none"
         THEN req' = [req EXCEPT ![r] = Respond(rec, ErrorJson(400, "No image uploaded"))]
       ELSE IF ~geminiApiKey
         THEN req' = [req EXCEPT ![r] =
                        Respond(rec, ErrorJson(500, "Gemini API key not configured"))]
       ELSE IF rec.filename \notin DOMAIN uploads
         \* fs.readFileSync throws
         THEN req' = [req EXCEPT ![r] = Respond(rec, ErrorJson(500, "ENOENT"))]
       ELSE req' = [req EXCEPT ![r] =
                      [rec EXCEPT !.pc = "model", !.modelCalls = @ + 1]]
  /\ UNCHANGED <<deployment, geminiApiKey, now, uploads, reports, meta>>
  /\ UNCHANGED avars
  /\ UNCHANGED cvars

\* A handler that would call the model again after a rejected call.
ExpressModelFail_Retry(r) ==
  /\ deployment = "express"
  /\ req[r].pc = "model"
  /\ req[r].modelCalls < 2
  /\ req' = [req EXCEPT ![r] = [req[r] EXCEPT !.modelCalls = @ + 1]]
  /\ UNCHANGED <<deployment, geminiApiKey, now, uploads, reports, meta>>
  /\ UNCHANGED avars
  /\ UNCHANGED cvars

\* server.js 77, 141-144: model.generateContent rejects; the catch of the
\* route answers 500 (no retry, nothing written).
ExpressModelFail(r) ==
  /\ deployment = "express"
  /\ req[r].pc = "model"
  /\ req' = [req EXCEPT ![r] =
               Respond([req[r] EXCEPT !.failed = @ \cup {"model"}],
                       ErrorJson(500, "fetch failed"))]
  /\ UNCHANGED <<deployment, geminiApiKey, now, uploads, reports, meta>>
  /\ UNCHANGED avars
  /\ UNCHANGED cvars

\* server.js 87-112, 126-144: the model answers; parse, normalize, write the
\* metadata record, respond.
ExpressModelReturn(r) ==
  /\ deployment = "express"
  /\ req[r].pc = "model"
  /\ \E answer \in ModelTexts, written \in BOOLEAN :
       LET rec == [req[r] EXCEPT !.answer = answer]
           out == AnalyzeText(answer)
           metaFile == ParsedName(rec.filename)
       IN
       IF out.status = "parse_error"
         THEN /\ req' = [req EXCEPT ![r] =
                           Respond(rec, ErrorJson(500, "Failed to parse AI response as JSON"))]
              /\ UNCHANGED meta
       ELSE IF out.status = "type_error"
         THEN /\ req' = [req EXCEPT ![r] =
                           Respond(rec, ErrorJson(500, "Cannot read properties of null"))]
              /\ UNCHANGED meta
       ELSE IF written
         THEN /\ meta' = Put(meta, metaFile,
                             [req |-> r, kind |-> "image", analysis |-> out.analysis])
              /\ req' = [req EXCEPT ![r] =
                           Respond([rec EXCEPT !.analysis = out.analysis,
                                               !.wrote = @ \cup {"meta"}],
                                   AnalyzeSuccess(rec.filename, out.analysis))]
       ELSE /\ UNCHANGED meta
            /\ req' = [req EXCEPT ![r] =
                         Respond([rec EXCEPT !.analysis = out.analysis,
                                             !.failed = @ \cup {"meta"}],
                                 ErrorJson(500, "ENOSPC"))]
  /\ UNCHANGED <<deployment, geminiApiKey, now, uploads, reports>>
  /\ UNCHANGED avars
  /\ UNCHANGED cvars

(***************************************************************************)
(* Netlify: the analyze function.                                          *)
(***************************************************************************)
NetlifyAnalyzeInputs ==
  {AnalyzeReq("GET", "ok", "none", "none", 1, <<>>),
   AnalyzeReq("POST", "malformed", "none", "none", 1, <<>>),
   AnalyzeReq("POST", "ok", "none", "image/png", 1, <<>>),
   AnalyzeReq("POST", "ok", "dataUrl", "none", 1, <<>>),
   AnalyzeReq("POST", "ok", "number", "image/png", 1, <<>>)}
  \cup {AnalyzeReq("POST", "ok", "dataUrl", mt, sz, nm) :
          mt \in MimeTypes, sz \in Sizes, nm \in OriginalNames \cup {<<>>}}

\* The handler up to the call of the model: method, body, the two required
\* fields, the MIME type.
NetlifyAnalyzeCall(r) ==
  /\ deployment = "netlify"
  /\ CanStart(r)
  /\ \E in \in NetlifyAnalyzeInputs :
       IF in.method # "POST"
         THEN req' = [req EXCEPT ![r] = Respond(in, ErrorText(405, "Method Not Allowed"))]
       ELSE IF in.body = "malformed"
         THEN req' = [req EXCEPT ![r] = Respond(in, ErrorJson(400, "Expected JSON body"))]
       ELSE IF in.image = "none" \/ in.mime = "none"
         THEN req' = [req EXCEPT ![r] =
                        Respond(in, ErrorJson(400, "Missing imageDataUrl or mimeType"))]
       ELSE IF in.mime \notin allowed
         THEN req' = [req EXCEPT ![r] =
                        Respond(in, ErrorJson(400, "Only JPG, JPEG, PNG are allowed"))]
       ELSE IF ~geminiApiKey
         THEN req' = [req EXCEPT ![r] = Respond(in, ErrorJson(500, "API key not configured"))]
       ELSE IF in.image = "number"
         \* imageDataUrl.replace is not a function
         THEN req' = [req EXCEPT ![r] =
                        Respond(in, ErrorJson(500, "imageDataUrl.replace is not a function"))]
       ELSE req' = [req EXCEPT ![r] = [in EXCEPT !.pc = "model", !.modelCalls = @ + 1]]
  /\ UNCHANGED <<deployment, geminiApiKey, now, uploads, reports, meta>>
  /\ UNCHANGED avars
  /\ UNCHANGED cvars

\* model.generateContent rejects: the outer catch answers.
NetlifyModelFail(r) ==
  /\ deployment = "netlify"
  /\ req[r].op = "analyze"
  /\ req[r].pc = "model"
  /\ req' = [req EXCEPT ![r] =
               Respond([req[r] EXCEPT !.failed = @ \cup {"model"}],
                       ErrorJson(500, "fetch failed"))]
  /\ UNCHANGED <<deployment, geminiApiKey, now, uploads, reports, meta>>
  /\ UNCHANGED avars
  /\ UNCHANGED cvars

\* The model answers: parse, normalize, name the blob.
NetlifyModelReturn(r) ==
  /\ deployment = "netlify"
  /\ req[r].op = "analyze"
  /\ req[r].pc = "model"
  /\ \E answer \in ModelTexts :
       LET rec == [req[r] EXCEPT !.answer = answer]
           out == AnalyzeText(answer)
       IN
       IF out.status = "parse_error"
         THEN req' = [req EXCEPT ![r] =
                        Respond(rec, ErrorJson(500, "Failed to parse AI response as JSON"))]
       ELSE IF out.status = "type_error"
         THEN req' = [req EXCEPT ![r] =
                        Respond(rec, ErrorJson(500, "Cannot read properties of null"))]
       ELSE req' = [req EXCEPT ![r] =
                      [rec EXCEPT !.pc = "blobUpload", !.stamp = now,
                                  !.filename = SafeName(now, rec.name),
                                  !.analysis = out.analysis]]
  /\ UNCHANGED <<deployment, geminiApiKey, now, uploads, reports, meta>>
  /\ UNCHANGED avars
  /\ UNCHANGED cvars

\* createBlob of the image; a failure is caught and only warned about.
NetlifyBlobUpload(r) ==
  /\ deployment = "netlify"
  /\ req[r].op = "analyze"
  /\ req[r].pc = "blobUpload"
  /\ \E written \in BOOLEAN :
       LET rec == req[r] IN
       IF written
         THEN /\ uploads' = Put(uploads, rec.filename, [req |-> r, time |-> rec.stamp])
              /\ req' = [req EXCEPT ![r] =
                           [rec EXCEPT !.pc = "blobMeta", !.wrote = @ \cup {"uploads"}]]
         ELSE /\ UNCHANGED uploads
              /\ req' = [req EXCEPT ![r] =
                           Respond([rec EXCEPT !.failed = @ \cup {"uploads"}],
                                   AnalyzeSuccess(rec.filename, rec.analysis))]
  /\ UNCHANGED <<deployment, geminiApiKey, now, reports, meta>>
  /\ UNCHANGED avars
  /\ UNCHANGED cvars

\* createBlob of the metadata record, then the response.
NetlifyBlobMeta(r) ==
  /\ deployment = "netlify"
  /\ req[r].op = "analyze"
  /\ req[r].pc = "blobMeta"
  /\ \E written \in BOOLEAN :
       LET rec == req[r] IN
       IF written
         THEN /\ meta' = Put(meta, StripExtension(rec.filename),
                             [req |-> r, kind |-> "image", analysis |-> rec.analysis])
              /\ req' = [req EXCEPT ![r] =
                           Respond([rec EXCEPT !.wrote = @ \cup {"meta"}],
                                   AnalyzeSuccess(rec.filename, rec.analysis))]
         ELSE /\ UNCHANGED meta
              /\ req' = [req EXCEPT ![r] =
                           Respond([rec EXCEPT !.failed = @ \cup {"meta"}],
                                   AnalyzeSuccess(rec.filename, rec.analysis))]
  /\ UNCHANGED <<deployment, geminiApiKey, now, uploads, reports>>
  /\ UNCHANGED avars
  /\ UNCHANGED cvars

(***************************************************************************)
(* Save-report, in both deployments.                                       *)
(***************************************************************************)
SaveInputs ==
  {SaveReq("POST", "ok", p, bn, a) :
     p \in PdfPayloads, bn \in BaseNames \cup {<<>>}, a \in BOOLEAN}
  \cup {SaveReq("POST", "malformed", "missing", <<>>, FALSE)}

ReportMeta(r) == [req |-> r, kind |-> "report", analysis |-> NoAnalysis]

\* server.js 148-178.  A body express.json() cannot parse goes to the default
\* Express error handler; the handler itself runs without a suspension point.
ExpressSaveReport(r) ==
  /\ deployment = "express"
  /\ CanStart(r)
  /\ \E in \in SaveInputs, pdfWritten \in BOOLEAN, metaWritten \in BOOLEAN :
       LET safeBase == SafeBase(now, in.baseName)
           rec == [in EXCEPT !.filename = safeBase]
       IN
       IF in.body = "malformed"
         THEN /\ req' = [req EXCEPT ![r] = Respond(in, ErrorText(400, "Unexpected token"))]
              /\ UNCHANGED <<reports, meta>>
       ELSE IF InvalidPdf(in.pdf)
         THEN /\ req' = [req EXCEPT ![r] =
                           Respond(in, ErrorJson(400, "Invalid or missing PDF data"))]
              /\ UNCHANGED <<reports, meta>>
       ELSE IF PdfThrows(in.pdf)
         THEN /\ req' = [req EXCEPT ![r] = Respond(in, ErrorJson(500, "Failed to save report"))]
              /\ UNCHANGED <<reports, meta>>
       ELSE IF ~pdfWritten
         THEN /\ req' = [req EXCEPT ![r] =
                           Respond([rec EXCEPT !.failed = {"reports"}],
                                   ErrorJson(500, "Failed to save report"))]
              /\ UNCHANGED <<reports, meta>>
       ELSE IF ~in.hasAnalysis
         THEN /\ reports' = Put(reports, safeBase, [req |-> r, time |-> now])
              /\ req' = [req EXCEPT ![r] =
                           Respond([rec EXCEPT !.wrote = {"reports"}], SaveSuccess(safeBase))]
              /\ UNCHANGED meta
       ELSE IF ~metaWritten
         THEN /\ reports' = Put(reports, safeBase, [req |-> r, time |-> now])
              /\ req' = [req EXCEPT ![r] =
                           Respond([rec EXCEPT !.wrote = {"reports"}, !.failed = {"meta"}],
                                   ErrorJson(500, "Failed to save report"))]
              /\ UNCHANGED meta
       ELSE /\ reports' = Put(reports, safeBase, [req |-> r, time |-> now])
            /\ meta' = Put(meta, safeBase, ReportMeta(r))
            /\ req' = [req EXCEPT ![r] =
                         Respond([rec EXCEPT !.wrote = {"reports", "meta"}],
                                 SaveSuccess(safeBase))]
  /\ UNCHANGED <<deployment, geminiApiKey, now, uploads>>
  /\ UNCHANGED avars
  /\ UNCHANGED cvars

\* netlify/functions/save-report.js 5-31: method, body, the PDF prefix, the
\* base name.
NetlifySaveReport(r) ==
  /\ deployment = "netlify"
  /\ CanStart(r)
  /\ \E in \in SaveInputs \cup {SaveReq("GET", "ok", "pdf", <<>>, TRUE)} :
       IF in.method # "POST"
         THEN req' = [req EXCEPT ![r] = Respond(in, ErrorText(405, "Method Not Allowed"))]
       ELSE IF in.body = "malformed"
         THEN req' = [req EXCEPT ![r] = Respond(in, ErrorJson(500, "Failed to save report"))]
       ELSE IF InvalidPdf(in.pdf)
         THEN req' = [req EXCEPT ![r] =
                        Respond(in, ErrorJson(400, "Invalid or missing PDF data"))]
       ELSE IF PdfThrows(in.pdf)
         THEN req' = [req EXCEPT ![r] = Respond(in, ErrorJson(500, "Failed to save report"))]
       ELSE req' = [req EXCEPT ![r] =
                      [in EXCEPT !.pc = "blobReport",
                                 !.filename = SafeBase(now, in.baseName)]]
  /\ UNCHANGED <<deployment, geminiApiKey, now, uploads, reports, meta>>
  /\ UNCHANGED avars
  /\ UNCHANGED cvars

\* save-report.js 33-38, 47-59: createBlob of the document; a failure is
\* caught and only warned about.
NetlifyBlobReport(r) ==
  /\ deployment = "netlify"
  /\ req[r].op = "save"
  /\ req[r].pc = "blobReport"
  /\ \E written \in BOOLEAN :
       LET rec == req[r] IN
       IF ~written
         THEN /\ UNCHANGED reports
              /\ req' = [req EXCEPT ![r] =
                           Respond([rec EXCEPT !.failed = @ \cup {"reports"}],
                                   SaveSuccess(rec.filename))]
       ELSE IF rec.hasAnalysis
         THEN /\ reports' = Put(reports, rec.filename, [req |-> r, time |-> now])
              /\ req' = [req EXCEPT ![r] =
                           [rec EXCEPT !.pc = "blobMeta", !.wrote = @ \cup {"reports"}]]
       ELSE /\ reports' = Put(reports, rec.filename, [req |-> r, time |-> now])
            /\ req' = [req EXCEPT ![r] =
                         Respond([rec EXCEPT !.wrote = @ \cup {"reports"}],
                                 SaveSuccess(rec.filename))]
  /\ UNCHANGED <<deployment, geminiApiKey, now, uploads, meta>>
  /\ UNCHANGED avars
  /\ UNCHANGED cvars

\* save-report.js 40-59: createBlob of the metadata record, then the response.
NetlifySaveBlobMeta(r) ==
  /\ deployment = "netlify"
  /\ req[r].op = "save"
  /\ req[r].pc = "blobMeta"
  /\ \E written \in BOOLEAN :
       LET rec == req[r] IN
       IF written
         THEN /\ meta' = Put(meta, rec.filename, ReportMeta(r))
              /\ req' = [req EXCEPT ![r] =
                           Respond([rec EXCEPT !.wrote = @ \cup {"meta"}],
                                   SaveSuccess(rec.filename))]
         ELSE /\ UNCHANGED meta
              /\ req' = [req EXCEPT ![r] =
                           Respond([rec EXCEPT !.failed = @ \cup {"meta"}],
                                   SaveSuccess(rec.filename))]
  /\ UNCHANGED <<deployment, geminiApiKey, now, uploads, reports>>
  /\ UNCHANGED avars
  /\ UNCHANGED cvars

Next ==
  \/ Tick
  \/ \E r \in Reqs : ExpressUpload(r)
  \/ \E r \in Reqs : ExpressAnalyzeCall(r)
  \/ \E r \in Reqs : ExpressModelFail(r)
  \/ \E r \in Reqs : ExpressModelReturn(r)
  \/ \E r \in Reqs : ExpressSaveReport(r)
  \/ \E r \in Reqs : NetlifyAnalyzeCall(r)
  \/ \E r \in Reqs : NetlifyModelFail(r)
  \/ \E r \in Reqs : NetlifyModelReturn(r)
  \/ \E r \in Reqs : NetlifyBlobUpload(r)
  \/ \E r \in Reqs : NetlifyBlobMeta(r)
  \/ \E r \in Reqs : NetlifySaveReport(r)
  \/ \E r \in Reqs : NetlifyBlobReport(r)
  \/ \E r \in Reqs : NetlifySaveBlobMeta(r)

Spec == Init /\ [][Next]_vars

(***************************************************************************)
(* The page (public/script.js).  Every event handler runs to its next      *)
(* await in one step; a run of analyzeImage or generateAndSavePdf is       *)
(* suspended at an await between steps.  The server is whatever answers:   *)
(* a success carries the analysis of the bytes that were sent.  Elements   *)
(* that are only rendered (preview, results card, loading, toast) are left *)
(* out.                                                                    *)
(***************************************************************************)
ClientFiles ==
  {[name |-> "a.png", type |-> "image/png"],
   [name |-> "b.jpg", type |-> "image/jpeg"],
   [name |-> "c.gif", type |-> "image/gif"]}

\* script.js 36-38.
isAllowed(file) == file.type \in {"image/jpeg", "image/jpg", "image/png"}

\* What a successful answer carries for the bytes of one file, sent under the
\* name of another (server.js 135-139, README.md 247-256).
AnalysisFor(data) == [of |-> data.name]
StoredName(data, named) == [of |-> data.name, named |-> named.name]

\* Runs are numbered in the order in which they start.
CanStartRun(i) ==
  run[i].pc = "new" /\ (IF i = 1 THEN TRUE ELSE run[i - 1].pc # "new")

InFlight(i) == run[i].kind = "analyze" /\ run[i].pc \in {"reading", "fetching"}

ClientInit ==
  /\ ServerIdle
  /\ AnalysisIdle
  /\ isNetlify \in BOOLEAN
  /\ currentFile = NullFile
  /\ lastAnalysis = NullAnalysis
  /\ lastImageFilename = NullFilename
  /\ analyzeBtnDisabled = TRUE
  /\ downloadBtnHidden = TRUE
  /\ run = [i \in Runs |-> NewRun]

\* script.js 49-62, 65, 82-85: a change of the file input or a drop.
handleFiles ==
  /\ \E files \in {<<>>} \cup {<<f>> : f \in ClientFiles} :
       IF files = <<>>
         THEN UNCHANGED <<currentFile, analyzeBtnDisabled, downloadBtnHidden>>
       ELSE IF ~isAllowed(files[1])
         THEN UNCHANGED <<currentFile, analyzeBtnDisabled, downloadBtnHidden>>
       ELSE /\ currentFile' = files[1]
            /\ analyzeBtnDisabled' = FALSE
            \* resetResults, script.js 40-47
            /\ downloadBtnHidden' = TRUE
  /\ UNCHANGED <<isNetlify, lastAnalysis, lastImageFilename, run>>
  /\ UNCHANGED svars
  /\ UNCHANGED avars

\* script.js 95-101, 118-120, 164: a click on the enabled Analyze button, up
\* to the first await (fileToDataUrl on Netlify, fetch otherwise).
analyzeImage(i) ==
  /\ CanStartRun(i)
  /\ ~analyzeBtnDisabled
  /\ IF currentFile = NullFile
       THEN UNCHANGED <<analyzeBtnDisabled, run>>
       ELSE /\ analyzeBtnDisabled' = TRUE
            /\ run' = [run EXCEPT ![i] =
                 IF isNetlify
                   THEN [@ EXCEPT !.kind = "analyze", !.pc = "reading",
                                  !.data = currentFile]
                   ELSE [@ EXCEPT !.kind = "analyze", !.pc = "fetching",
                                  !.data = currentFile, !.named = currentFile]]
  /\ UNCHANGED <<isNetlify, currentFile, lastAnalysis, lastImageFilename,
                 downloadBtnHidden>>
  /\ UNCHANGED svars
  /\ UNCHANGED avars

\* script.js 101-110, 154-160: fileToDataUrl settles.  The request body takes
\* the type and the name from currentFile as it is now.
analyzeImageRead(i) ==
  /\ run[i].kind = "analyze"
  /\ run[i].pc = "reading"
  /\ \E loaded \in BOOLEAN :
       IF loaded
         THEN /\ run' = [run EXCEPT ![i] =
                           [@ EXCEPT !.pc = "fetching", !.named = currentFile]]
              /\ UNCHANGED analyzeBtnDisabled
         ELSE /\ run' = [run EXCEPT ![i] = [@ EXCEPT !.pc = "done"]]
              /\ analyzeBtnDisabled' = FALSE
  /\ UNCHANGED <<isNetlify, currentFile, lastAnalysis, lastImageFilename,
                 downloadBtnHidden>>
  /\ UNCHANGED svars
  /\ UNCHANGED avars

\* script.js 110-161: the answer arrives (or fetch rejects, or the answer is
\* an error): remember and show the analysis, or toast; re-enable the button.
analyzeImageResponse(i) ==
  /\ run[i].kind = "analyze"
  /\ run[i].pc = "fetching"
  /\ \E success \in BOOLEAN :
       IF success
         THEN /\ lastAnalysis' = AnalysisFor(run[i].data)
              /\ lastImageFilename' = StoredName(run[i].data, run[i].named)
              /\ downloadBtnHidden' = FALSE
         ELSE UNCHANGED <<lastAnalysis, lastImageFilename, downloadBtnHidden>>
  /\ analyzeBtnDisabled' = FALSE
  /\ run' = [run EXCEPT ![i] = [@ EXCEPT !.pc = "done"]]
  /\ UNCHANGED <<isNetlify, currentFile>>
  /\ UNCHANGED svars
  /\ UNCHANGED avars

\* script.js 168-188, 281: a click on the visible Download button, up to the
\* await of fileToDataUrl.
generateAndSavePdf(i) ==
  /\ CanStartRun(i)
  /\ ~downloadBtnHidden
  /\ IF lastAnalysis = NullAnalysis \/ currentFile = NullFile
       THEN UNCHANGED run
       ELSE run' = [run EXCEPT ![i] =
                      [@ EXCEPT !.kind = "pdf", !.pc = "pdfImage",
                                !.data = currentFile]]
  /\ UNCHANGED <<isNetlify, currentFile, lastAnalysis, lastImageFilename,
                 analyzeBtnDisabled, downloadBtnHidden>>
  /\ UNCHANGED svars
  /\ UNCHANGED avars

\* script.js 188-275: the image is loaded; the text of the document and the
\* body of the save-report request take lastAnalysis and lastImageFilename as
\* they are now.  A rejected fileToDataUrl ends the run.
generateAndSavePdfImage(i) ==
  /\ run[i].kind = "pdf"
  /\ run[i].pc = "pdfImage"
  /\ \E loaded \in BOOLEAN :
       run' = [run EXCEPT ![i] =
                 IF loaded
                   THEN [@ EXCEPT !.pc = "saving",
                                  !.doc = [image |-> run[i].data.name,
                                           analysis |-> lastAnalysis,
                                           imageFilename |-> lastImageFilename]]
                   ELSE [@ EXCEPT !.pc = "done"]]
  /\ UNCHANGED <<isNetlify, currentFile, lastAnalysis, lastImageFilename,
                 analyzeBtnDisabled, downloadBtnHidden>>
  /\ UNCHANGED svars
  /\ UNCHANGED avars

\* script.js 265-278: the save-report request settles; a failure is only
\* warned about.
generateAndSavePdfSaved(i) ==
  /\ run[i].kind = "pdf"
  /\ run[i].pc = "saving"
  /\ run' = [run EXCEPT ![i] = [@ EXCEPT !.pc = "done"]]
  /\ UNCHANGED <<isNetlify, currentFile, lastAnalysis, lastImageFilename,
                 analyzeBtnDisabled, downloadBtnHidden>>
  /\ UNCHANGED svars
  /\ UNCHANGED avars

ClientNext ==
  \/ handleFiles
  \/ \E i \in Runs : analyzeImage(i)
  \/ \E i \in Runs : analyzeImageRead(i)
  \/ \E i \in Runs : analyzeImageResponse(i)
  \/ \E i \in Runs : generateAndSavePdf(i)
  \/ \E i \in Runs : generateAndSavePdfImage(i)
  \/ \E i \in Runs : generateAndSavePdfSaved(i)

SpecClient == ClientInit /\ [][ClientNext]_vars

(***************************************************************************)
(* Properties.                                                             *)
(***************************************************************************)
Done(r) == req[r].pc = "done"
IsErrorResponse(resp) == ~resp.success /\ resp.status >= 400 /\ resp.error # ""
WrittenBy(store, r) == {k \in DOMAIN store : store[k].req = r}
NothingStoredBy(r) ==
  /\ req[r].wrote = {}
  /\ WrittenBy(uploads, r) = {}
  /\ WrittenBy(reports, r) = {}
  /\ WrittenBy(meta, r) = {}

\* C1: an analyze request whose image has a MIME type other than image/jpeg,
\* image/jpg, image/png is answered with an error, writes nothing to the
\* archive and never calls the model.
C1_DisallowedMimeRejected ==
  \A r \in Reqs :
    (/\ req[r].op = "analyze"
     /\ req[r].image # "none"
     /\ req[r].mime \notin {"image/jpeg", "image/jpg", "image/png"})
    => /\ Done(r)
       /\ IsErrorResponse(req[r].resp)
       /\ req[r].modelCalls = 0
       /\ NothingStoredBy(r)

C1_Witness ==
  \E r \in Reqs :
    /\ Done(r)
    /\ req[r].op = "analyze"
    /\ req[r].image = "file"
    /\ req[r].mime = "image/gif"
    /\ req[r].resp.status = 500
    /\ \E q \in Reqs : q # r /\ Done(q) /\ req[q].resp.success

\* C2: an analyze request whose image is larger than 10 MB never reaches the
\* model, in either deployment.
C2_OversizedNeverReachesModel ==
  \A r \in Reqs :
    (req[r].op = "analyze" /\ req[r].size > 10) => req[r].modelCalls = 0

\* C3: for every parsed JSON object the normalization does not throw and gives
\* a string disease, a string description, and medicines and causes that are
\* sequences of strings only.
IsStringValue(v) == v.type = "string"
IsStringList(v) ==
  v.type = "array" /\ \A i \in 1..Len(v.items) : v.items[i].type = "string"

C3_NormalizationTypeCorrect ==
  (stage = "done" /\ parsed.ok /\ parsed.val.type = "object")
  => /\ result.status = "ok"
     /\ IsStringValue(result.analysis.disease)
     /\ IsStringValue(result.analysis.description)
     /\ IsStringList(result.analysis.medicines)
     /\ IsStringList(result.analysis.causes)

Unparsable(answer) == ~JSONparse(ExtractJsonText(answer)).ok

C5_ParseFailureWritesNoMeta ==
  \A r \in Reqs :
    (/\ Done(r)
     /\ req[r].op = "analyze"
     /\ req[r].answer # <<>>
     /\ Unparsable(req[r].answer))
    => /\ req[r].resp = ErrorJson(500, "Failed to parse AI response as JSON")
       /\ "meta" \notin req[r].wrote
       /\ WrittenBy(meta, r) = {}

C5_Witness ==
  \E r \in Reqs :
    /\ Done(r)
    /\ req[r].op = "analyze"
    /\ req[r].answer = <<JUNK>>
    /\ req[r].modelCalls = 1
    /\ req[r].resp.status = 500

\* C6: a save-report request whose pdfDataUrl is missing or does not begin
\* with data:application/pdf;base64, is answered with an error and writes
\* neither a report nor a metadata record, whatever its other fields are.
C6_InvalidPdfRejected ==
  \A r \in Reqs :
    (req[r].op = "save" /\ req[r].pdf # "pdf")
    => /\ Done(r)
       /\ IsErrorResponse(req[r].resp)
       /\ NothingStoredBy(r)

C6_Witness ==
  \E r \in Reqs :
    /\ Done(r)
    /\ req[r].op = "save"
    /\ req[r].method = "POST"
    /\ req[r].body = "ok"
    /\ req[r].pdf = "text"
    /\ req[r].hasAnalysis
    /\ req[r].baseName # <<>>
    /\ req[r].resp.status = 400

\* C7: a request whose only failure is the write of its metadata record is
\* answered with success.
C7_MetaFailureKeepsSuccess ==
  \A r \in Reqs :
    (Done(r) /\ req[r].failed = {"meta"}) => req[r].resp.success

\* C8: an analyze request answered with success:true has its image stored in
\* uploads under the imageFilename of the response, and a failed one is
\* answered with an error.
C8_SuccessMeansImageStored ==
  \A r \in Reqs :
    (Done(r) /\ req[r].op = "analyze")
    => /\ req[r].resp.success => req[r].resp.imageFilename \in DOMAIN uploads
       /\ ~req[r].resp.success => IsErrorResponse(req[r].resp)

\* C9: two analyze requests that are named at different millisecond
\* timestamps get different storage keys.
Named(r) == req[r].op = "analyze" /\ req[r].filename # <<>>

C9_DifferentTimesDifferentKeys ==
  \A r1, r2 \in Reqs :
    (r1 # r2 /\ Named(r1) /\ Named(r2) /\ req[r1].stamp # req[r2].stamp)
    => req[r1].filename # req[r2].filename

\* C10: every answer to analyze and save-report has a JSON body, which has
\* success:true or an error description.
C10_AlwaysJson ==
  \A r \in Reqs :
    Done(r) => /\ req[r].resp.json
               /\ req[r].resp.success \/ req[r].resp.error # ""

\* C11: the archive is append-only: no step of any request replaces or
\* removes a metadata record or a report that is already stored (so the
\* image's record written by analyze survives every save-report).
C11_ArchiveAppendOnly ==
  [][/\ \A k \in DOMAIN meta : k \in DOMAIN meta' /\ meta'[k] = meta[k]
     /\ \A k \in DOMAIN reports :
          k \in DOMAIN reports' /\ reports'[k] = reports[k]]_vars

\* C15: a save-report answer with success:true names a report that is stored,
\* and a failure to store the document is answered with an error.
C15_SuccessMeansReportStored ==
  \A r \in Reqs :
    (Done(r) /\ req[r].op = "save")
    => /\ req[r].resp.success => req[r].resp.reportUrl \in DOMAIN reports
       /\ "reports" \in req[r].failed => IsErrorResponse(req[r].resp)

\* C12: within one analyze request the model is called at most once and
\* the steps come in the order model call, parse and normalize, metadata
\* write, response: the call happens before any answer or metadata write, the
\* answer is taken only after the one call, the metadata write only after a
\* parsed and normalized answer, and nothing follows the response.  A
\* rejected model call, or an answer that cannot be parsed and normalized,
\* ends the request with an error response, one model call and no metadata
\* write.
C12_Step(r) ==
  LET a == req[r]
      b == req'[r]
      metaTouched(x) == "meta" \in (x.wrote \cup x.failed)
  IN
  b.op = "analyze" =>
    /\ b.modelCalls <= 1
    /\ b.modelCalls # a.modelCalls
         => a.modelCalls = 0 /\ a.answer = <<>> /\ ~metaTouched(a) /\ a.pc # "done"
    /\ b.answer # a.answer
         => a.modelCalls = 1 /\ a.pc = "model" /\ ~metaTouched(a)
    /\ (metaTouched(b) /\ ~metaTouched(a))
         => /\ b.answer # <<>>
            /\ AnalyzeText(b.answer).status = "ok"
            /\ b.analysis = AnalyzeText(b.answer).analysis
    /\ a.pc = "done" => b = a
    /\ (b.pc = "done" /\ ("model" \in b.failed
                          \/ (b.answer # <<>> /\ AnalyzeText(b.answer).status # "ok")))
         => /\ IsErrorResponse(b.resp)
            /\ b.modelCalls = 1
            /\ ~metaTouched(b)

C12_OneCallFixedOrder == [][\A r \in Reqs : C12_Step(r)]_vars

\* A rejected model call and an unparsable answer have both been answered.
C12_Witness ==
  \E r1, r2 \in Reqs :
    /\ Done(r1) /\ req[r1].op = "analyze" /\ "model" \in req[r1].failed
    /\ req[r1].modelCalls = 1 /\ IsErrorResponse(req[r1].resp)
    /\ Done(r2) /\ req[r2].op = "analyze" /\ req[r2].answer # <<>>
    /\ AnalyzeText(req[r2].answer).status = "parse_error"
    /\ req[r2].modelCalls = 1 /\ "meta" \notin req[r2].wrote

\* C13: whenever generateAndSavePdf starts (a Download click that passes its
\* guard), lastAnalysis is the analysis of the file in currentFile and
\* lastImageFilename is the stored name of that file.
C13_PdfPairsFileWithItsAnalysis ==
  [][\A i \in Runs :
       (run[i].pc = "new" /\ run'[i].kind = "pdf")
       => /\ lastAnalysis = AnalysisFor(currentFile)
          /\ lastImageFilename = StoredName(currentFile, currentFile)]_vars

\* C14: at most one analyze request is in flight, and the Analyze button is
\* disabled as long as one is.
C14_OneAnalyzeInFlight ==
  /\ Cardinality({i \in Runs : InFlight(i)}) <= 1
  /\ (\E i \in Runs : InFlight(i)) => analyzeBtnDisabled

====
